---------------------------- MODULE Spec2Model ----------------------------
(***************************************************************************)
(* A model of scripts/python-skywater-pdk/skywater_pdk/liberty.py: the     *)
(* TimingType flags, corner discovery (collect), the driver (main), the    *)
(* per-corner generator (generate, remove_ccsnoise) and the serializer's   *)
(* ordering and number joining (liberty_sort, attr_sort_key, liberty_join, *)
(* liberty_list).                                                          *)
(*                                                                         *)
(* File names, corner tags and attribute keys are strings and every test   *)
(* the code makes on them (endswith, startswith, "in", split, replace, the *)
(* regular expression of liberty_sort) is computed on the characters.      *)
(***************************************************************************)
EXTENDS Integers, Sequences, FiniteSets, TLC

(***************************************************************************)
(* The state of a run of main                                              *)
(***************************************************************************)

VARIABLES
    tree,               \* the .lib.json files of the library directory
    holds,              \* what the files hold
    out,                \* the output files: whether each exists, and its lines
    pc,                 \* where main is: "collect", "args", "loop", "done", "abort"
    library,            \* lib, corners, cells of line 608
    corner_map,
    cell_list,
    requested,          \* the corner names of the command line
    output_corner_type,
    args_corner,
    next_arg,           \* the position of the loop of line 638 in args_corner
    retcode,            \* what main returned, -1 before it returns
    calls,              \* the calls of generate: <<corner, ocorner_type, icorner_type>>
    last_reads,         \* the files the last call of generate read
    error,              \* the exception that ended the run
    raised_in,          \* the function that raised it
    listed,             \* "Available corners:" has been printed
    given,              \* the argument of a function that is called on its own
    returned            \* what that call returned

vars == <<tree, holds, out, pc, library, corner_map, cell_list, requested, output_corner_type,
          args_corner, next_arg, retcode, calls, last_reads, error, raised_in, listed,
          given, returned>>

(***************************************************************************)
(* Strings                                                                 *)
(***************************************************************************)

\* s.startswith(p)
StartsWith(s, p) == Len(s) >= Len(p) /\ SubSeq(s, 1, Len(p)) = p

\* s.endswith(p)
EndsWith(s, p) == Len(s) >= Len(p) /\ SubSeq(s, Len(s) - Len(p) + 1, Len(s)) = p

\* The positions of s where p occurs
Occurrences(s, p) == {i \in 1..(Len(s) - Len(p) + 1) : SubSeq(s, i, i + Len(p) - 1) = p}

\* p in s
Contains(s, p) == Occurrences(s, p) # {}

\* s.find(p) + 1: the first position of p in s, 0 when there is none
Find(s, p) ==
    LET at == Occurrences(s, p)
    IN  IF at = {} THEN 0 ELSE CHOOSE i \in at : \A j \in at : i <= j

\* s.rfind(p) + 1: the last position of p in s, 0 when there is none
RFind(s, p) ==
    LET at == Occurrences(s, p)
    IN  IF at = {} THEN 0 ELSE CHOOSE i \in at : \A j \in at : j <= i

\* s.split(sep): the sequence of the pieces of s between the occurrences of sep
RECURSIVE Split(_, _)
Split(s, sep) ==
    LET i == Find(s, sep)
    IN  IF i = 0 THEN <<s>>
        ELSE <<SubSeq(s, 1, i - 1)>> \o Split(SubSeq(s, i + Len(sep), Len(s)), sep)

\* s.replace(old, new)
RECURSIVE Replace(_, _, _)
Replace(s, old, new) ==
    LET i == Find(s, old)
    IN  IF i = 0 THEN s
        ELSE SubSeq(s, 1, i - 1) \o new \o Replace(SubSeq(s, i + Len(old), Len(s)), old, new)

(***************************************************************************)
(* TimingType: an IntFlag, a value is an integer 0..7                      *)
(***************************************************************************)

basic == 1
ccsnoise == 3
leakage == 4

\* The members in definition order, as the class docstring documents the
\* iteration ((leakage | ccsnoise).names() is 'basic, ccsnoise, leakage').
TimingTypeMembers == <<basic, ccsnoise, leakage>>

Bits(n) == {i \in 0..2 : (n \div (2 ^ i)) % 2 = 1}

RECURSIVE FromBits(_)
FromBits(S) == IF S = {} THEN 0
               ELSE LET i == CHOOSE j \in S : TRUE IN (2 ^ i) + FromBits(S \ {i})

\* What line 212 would record with "=" in place of "|=": the last type only
FlagAssign(a, b) == b

\* a | b
FlagOr(a, b) == FromBits(Bits(a) \cup Bits(b))

\* a & b
FlagAnd(a, b) == FromBits(Bits(a) \cap Bits(b))

\* t in self
FlagIn(t, self) == FlagAnd(self, t) = t

\* TimingType.file
file(self) == IF self = ccsnoise THEN "_ccsnoise"
              ELSE IF self = leakage THEN "_pwrlkg"
              ELSE ""

\* TimingType.parse: <<name, ttype>>
parse(name) ==
    IF EndsWith(name, "_ccsnoise")
    THEN <<SubSeq(name, 1, Len(name) - Len("_ccsnoise")), ccsnoise>>
    ELSE IF EndsWith(name, "_pwrlkg")
    THEN <<SubSeq(name, 1, Len(name) - Len("_pwrlkg")), leakage>>
    ELSE <<name, basic>>

\* TimingType.types, as a set
types(self) ==
    LET tt == {TimingTypeMembers[i] : i \in {j \in 1..3 : FlagIn(TimingTypeMembers[j], self)}}
    IN  IF ccsnoise \in tt THEN tt \ {basic} ELSE tt

\* TimingType.singular
singular(self) == Cardinality(types(self)) = 1

\* The order in which list(tt) yields the members of a set of small integers
typesList(self) ==
    LET tt == types(self)
    IN  SelectSeq(TimingTypeMembers, LAMBDA t : t \in tt)

(***************************************************************************)
(* Ordering of strings (Python compares strings by code point)             *)
(***************************************************************************)

\* The characters the model uses, in code point order
CodePointOrder == " ./0123456789ACNOS_abcdefghijklmnopqrstuvwxyz"

Ord(c) == Find(CodePointOrder, c)

\* a < b
RECURSIVE StrLess(_, _)
StrLess(a, b) ==
    IF b = "" THEN FALSE
    ELSE IF a = "" THEN TRUE
    ELSE IF SubSeq(a, 1, 1) # SubSeq(b, 1, 1) THEN Ord(SubSeq(a, 1, 1)) < Ord(SubSeq(b, 1, 1))
    ELSE StrLess(SubSeq(a, 2, Len(a)), SubSeq(b, 2, Len(b)))

\* sorted(S) for a set S of strings
RECURSIVE sorted(_)
sorted(S) ==
    IF S = {} THEN <<>>
    ELSE LET m == CHOOSE x \in S : \A y \in S \ {x} : StrLess(x, y)
         IN  <<m>> \o sorted(S \ {m})

RECURSIVE Flatten(_)
Flatten(ss) == IF ss = <<>> THEN <<>> ELSE Head(ss) \o Flatten(Tail(ss))

Range(f) == {f[x] : x \in DOMAIN f}

(***************************************************************************)
(* File names                                                              *)
(***************************************************************************)

IsDigit(c) == c \in {"0", "1", "2", "3", "4", "5", "6", "7", "8", "9"}

\* sizes.parse_size(cell).suffix: the drive-strength suffix of a cell name,
\* "_<digits>" at its end, "" when the name carries none
parse_size(cell_with_size) ==
    LET i == RFind(cell_with_size, "_")
    IN  IF /\ i > 0
           /\ i < Len(cell_with_size)
           /\ \A j \in (i + 1)..Len(cell_with_size) : IsDigit(SubSeq(cell_with_size, j, j))
        THEN SubSeq(cell_with_size, i, Len(cell_with_size))
        ELSE ""

cell_corner_file(lib, cell_with_size, corner, corner_type) ==
    LET sz == parse_size(cell_with_size)
        cell == IF sz # "" THEN SubSeq(cell_with_size, 1, Len(cell_with_size) - Len(sz))
                ELSE cell_with_size
    IN  "cells/" \o cell \o "/" \o lib \o "__" \o cell_with_size \o "__"
            \o corner \o file(corner_type) \o ".lib.json"

top_corner_file(libname, corner, corner_type) ==
    "timing/" \o libname \o "__" \o corner \o file(corner_type) \o ".lib.json"

\* os.path.join(library_dir, "timing", "{}__common.lib.json".format(lib))
common_data_path(lib) == "timing/" \o lib \o "__common.lib.json"

\* Line 270: top_corner_file(lib, corner, ocorner_type).replace('.lib.json', '.lib')
top_fname(top_file) == Replace(top_file, ".lib.json", ".lib")

(***************************************************************************)
(* Value trees: what json.load returns.  A dict keeps its keys in the      *)
(* order of the file, so its items are a sequence of <<key, value>>.       *)
(***************************************************************************)

JStr(s) == [kind |-> "str", sval |-> s]
JInt(n) == [kind |-> "int", ival |-> n]
\* A float is given by its shortest representation, json.dumps(f) = repr(f)
JFloat(r) == [kind |-> "float", repr |-> r]
Dict(items) == [kind |-> "dict", items |-> items]
List(elems) == [kind |-> "list", elems |-> elems]

Keys(d) == {d.items[n][1] : n \in DOMAIN d.items}

\* d[k] for a key k of the dict d
Get(d, k) == d.items[CHOOSE n \in DOMAIN d.items : d.items[n][1] = k][2]

\* del d[k]
Del(d, k) == Dict(SelectSeq(d.items, LAMBDA kv : kv[1] # k))

\* d[k] = v for a key k of the dict d
Put(d, k, v) == Dict([n \in DOMAIN d.items |->
                        IF d.items[n][1] = k THEN <<k, v>> ELSE d.items[n]])

(***************************************************************************)
(* remove_ccsnoise                                                         *)
(***************************************************************************)

\* Lines 257-265: every key of every entry of pin_timing that starts with
\* "ccsn_" is deleted.  Iterating a dict yields its keys, and iterating a key
\* yields its characters, none of which starts with "ccsn_": a "timing" value
\* that is one group and not a list of groups is left as it is.
strip_pin_timing(pin_timing) ==
    IF pin_timing.kind = "list"
    THEN List([n \in DOMAIN pin_timing.elems |->
                LET t == pin_timing.elems[n]
                IN  IF t.kind = "dict"
                    THEN Dict(SelectSeq(t.items, LAMBDA kv : ~StartsWith(kv[1], "ccsn_")))
                    ELSE t])
    ELSE pin_timing

\* Lines 248-265, for the value of one "pin <name>" key
strip_pin(pin_data) ==
    LET d1 == IF "input_voltage" \in Keys(pin_data) THEN Del(pin_data, "input_voltage")
              ELSE pin_data
    IN  IF "timing" \notin Keys(d1) THEN d1
        ELSE Put(d1, "timing", strip_pin_timing(Get(d1, "timing")))

\* remove_ccsnoise(data), for a dict whose "pin <name>" values are dicts
remove_ccsnoise(data) ==
    LET kept == SelectSeq(data.items, LAMBDA kv : ~Contains(kv[1], "ccsn_"))
    IN  Dict([n \in DOMAIN kept |->
                IF StartsWith(kept[n][1], "pin ")
                THEN <<kept[n][1], strip_pin(kept[n][2])>>
                ELSE kept[n]])

(***************************************************************************)
(* The serializer                                                          *)
(***************************************************************************)

Ok(lines) == [ok |-> TRUE, lines |-> lines]
Fail(err) == [ok |-> FALSE, err |-> err]

\* o.extend(lines) for the result of a call, when o is the result of the
\* calls before it: the error of the first that raises
extended(first, rest) ==
    IF ~first.ok THEN first
    ELSE IF ~rest.ok THEN rest
    ELSE Ok(first.lines \o rest.lines)

\* The results of a sequence of calls, in order: the lines of all of them, or
\* the error of the first that raises
RECURSIVE Extend(_)
Extend(rs) ==
    IF rs = <<>> THEN Ok(<<>>) ELSE extended(Head(rs), Extend(Tail(rs)))

\* sorted(seq, key) for a strict weak order on the elements, less[a, b]
\* telling whether seq[a] is less than seq[b]: an element comes after those
\* that are less and after the earlier ones that are equal
StableSort(seq, less) ==
    LET before(a) == {b \in DOMAIN seq :
                        \/ less[b, a]
                        \/ ~less[a, b] /\ b < a}
    IN  [r \in DOMAIN seq |-> seq[CHOOSE a \in DOMAIN seq : Cardinality(before(a)) = r - 1]]

INDENT == "    "

\* INDENT*i
RECURSIVE Indent(_)
Indent(i) == IF i <= 0 THEN "" ELSE INDENT \o Indent(i - 1)

\* ", ".join(ss)
RECURSIVE Join(_)
Join(ss) == IF ss = <<>> THEN ""
            ELSE IF Len(ss) = 1 THEN ss[1]
            ELSE ss[1] \o ", " \o Join(Tail(ss))

DigitChars == "0123456789"

\* int(n) for a string of digits
RECURSIVE StrToInt(_)
StrToInt(n) ==
    IF n = "" THEN 0
    ELSE 10 * StrToInt(SubSeq(n, 1, Len(n) - 1))
            + (Find(DigitChars, SubSeq(n, Len(n), Len(n))) - 1)

\* str(n) for an integer
RECURSIVE IntToStr(_)
IntToStr(n) ==
    IF n < 0 THEN "-" \o IntToStr(0 - n)
    ELSE IF n < 10 THEN SubSeq(DigitChars, n + 1, n + 1)
    ELSE IntToStr(n \div 10) \o SubSeq(DigitChars, (n % 10) + 1, (n % 10) + 1)

\* The end of the run of digits of k that starts at position d
digits_end(k, d) ==
    CHOOSE x \in d..Len(k) :
        /\ \A y \in d..x : IsDigit(SubSeq(k, y, y))
        /\ x = Len(k) \/ ~IsDigit(SubSeq(k, x + 1, x + 1))

\* The groups of the match of "(.*)_([0-9]+)" whose underscore is at u
groups_at(k, u) == <<SubSeq(k, 1, u - 1), SubSeq(k, u + 1, digits_end(k, u + 1))>>

\* The match for the underscores at that a digit follows
match_of(k, at) ==
    IF at = {} THEN <<>> ELSE groups_at(k, CHOOSE x \in at : \A y \in at : y <= x)

\* RE_LIBERTY_LIST.match(k) for "(.*)_([0-9]+)": the first group is greedy, so
\* the underscore is the last one that a digit follows, and the second group
\* is the run of digits after it; what follows the digits is not looked at.
\* <<group 1, group 2>>, or <<>> for no match
RE_LIBERTY_LIST(k) ==
    match_of(k, {u \in 1..(Len(k) - 1) :
                    SubSeq(k, u, u) = "_" /\ IsDigit(SubSeq(k, u + 1, u + 1))})

\* Lines 347-353 for the match m
sort_of(k, m) ==
    IF m # <<>> THEN [inf |-> FALSE, n |-> StrToInt(m[2]), k |-> m[1]]
    ELSE [inf |-> TRUE, n |-> 0, k |-> k]

\* liberty_sort(k): [inf, n, k], n = float('inf') being inf = TRUE
liberty_sort(k) == sort_of(k, RE_LIBERTY_LIST(k))

\* Lines 367-370 for the match m
list_name(k, m) == IF m # <<>> THEN m[1] ELSE k

is_liberty_list(k) == list_name(k, RE_LIBERTY_LIST(k)) \in {"variable", "index", "values"}

\* len(str(0.0083333333))
WIDTH == 12

RECURSIVE PadZeros(_, _)
PadZeros(s, n) == IF n <= 0 THEN s ELSE PadZeros(s \o "0", n - 1)

\* Lines 394-398 for a, b = s.split('e')
float_exp(a, b) ==
    IF Contains(a, ".") THEN PadZeros(a, WIDTH - (Len(a) + Len(b) + 1)) \o "e" \o b
    ELSE PadZeros(a \o ".", WIDTH - (Len(a) + Len(b) + 2)) \o "e" \o b

float_parts(parts) == float_exp(parts[1], parts[2])

\* liberty_float on s = json.dumps(f)
liberty_float_str(s) ==
    IF Contains(s, "e") THEN float_parts(Split(s, "e"))
    ELSE IF Contains(s, ".") THEN PadZeros(s, WIDTH - Len(s))
    ELSE IF Len(s) < WIDTH THEN PadZeros(s \o ".", WIDTH - (Len(s) + 1))
    ELSE s

\* json.dumps(v) of a scalar
json_dumps(v) ==
    IF v.kind = "int" THEN IntToStr(v.ival)
    ELSE IF v.kind = "float" THEN v.repr
    ELSE "\"" \o v.sval \o "\""

\* str(v) of a scalar
py_str(v) ==
    IF v.kind = "int" THEN IntToStr(v.ival)
    ELSE IF v.kind = "float" THEN v.repr
    ELSE v.sval

liberty_float(f) == liberty_float_str(json_dumps(f))

\* liberty_composite(i, k, v)
RECURSIVE liberty_composite(_, _, _)
liberty_composite(i, k, v) ==
    IF v.kind # "list" THEN Fail("AssertionError")
    ELSE IF v.elems = <<>> THEN Fail("IndexError")
    ELSE IF v.elems[1].kind = "list"
    THEN Extend([n \in DOMAIN v.elems |-> liberty_composite(i, k, v.elems[n])])
    ELSE IF \E n \in DOMAIN v.elems : v.elems[n].kind \notin {"float", "int", "str"}
    THEN Fail("ValueError")
    ELSE IF \E n \in DOMAIN v.elems :
                v.elems[n].kind = "str" /\ Contains(v.elems[n].sval, "\"")
    THEN Fail("AssertionError")
    ELSE Ok(<<Indent(i) \o k \o "("
                \o Join([n \in DOMAIN v.elems |->
                            IF v.elems[n].kind = "str" THEN json_dumps(v.elems[n])
                            ELSE liberty_float(v.elems[n])])
                \o ");">>)

Count(l, kind) == Cardinality({n \in DOMAIN l : l[n].kind = kind})

\* Lines 466-479 for the counts d[float] and d[int]
join_for(l, floats, ints) ==
    IF floats > 0
    THEN IF floats + ints = Len(l) THEN "float" ELSE "AssertionError"
    ELSE IF ints > 0
    THEN IF ints = Len(l) THEN "int" ELSE "AssertionError"
    ELSE "ValueError"

\* liberty_join(l): which join it returns, "float" for the one that applies
\* liberty_float and "int" for the one that applies str, or the error raised
liberty_join(l) == join_for(l, Count(l, "float"), Count(l, "int"))

\* join(l) for the join that liberty_join returned, on a sequence of scalars
join(which, l) ==
    Join([n \in DOMAIN l |-> IF which = "float" THEN liberty_float(l[n]) ELSE py_str(l[n])])

\* Lines 491-494: the first line follows the key on its line, and ");" ends
\* the last in place of its three last characters
table_lines(i, k, o) ==
    [n \in DOMAIN o |->
        (IF n = 1 THEN Indent(i) \o k \o "(" ELSE "")
            \o (IF n = Len(o) THEN SubSeq(o[n], 1, Len(o[n]) - 3) \o ");" ELSE o[n])]

\* Lines 485-494, which being what liberty_join(v[0]) returned
list_rows(i, k, v, which) ==
    IF which \notin {"float", "int"} THEN Fail(which)
    ELSE IF \E n \in DOMAIN v : v[n].kind # "list" THEN Fail("TypeError")
    ELSE Ok(table_lines(i, k, [n \in DOMAIN v |->
                Indent(i + 1) \o "\"" \o join(which, v[n].elems) \o "\", \\"]))

\* Lines 496-497, which being what liberty_join(v) returned
list_flat(i, k, v, which) ==
    IF which \notin {"float", "int"} THEN Fail(which)
    ELSE Ok(<<Indent(i) \o k \o "(\"" \o join(which, v) \o "\");">>)

\* liberty_list(i, k, v), for a list v of scalars or of lists of scalars
liberty_list(i, k, v) ==
    IF v[1].kind = "list" THEN list_rows(i, k, v, liberty_join(v[1].elems))
    ELSE list_flat(i, k, v, liberty_join(v))

\* k.split(" ", 1) at the first space, sp = 0 when k has none
split_at(k, sp) ==
    IF sp > 0 THEN <<SubSeq(k, 1, sp - 1), SubSeq(k, sp + 1, Len(k))>> ELSE <<k, "">>

\* k.split(" ", 1) of lines 521-525 and 537-541: <<ktype, kvalue>>
split_key(k) == split_at(k, Find(k, " "))

\* The tuple (kn, ktype, kvalue) of line 533, kvalue = None being none = TRUE
sort_tuple(s, none, kvalue) ==
    [inf |-> s.inf, n |-> s.n, ktype |-> s.k, none |-> none, kvalue |-> kvalue]

\* Lines 527-533 for ktype, kvalue = kt
sort_key(kt) ==
    IF kt[1] = "comp_attribute" THEN sort_tuple(liberty_sort(kt[2]), TRUE, "")
    ELSE sort_tuple(liberty_sort(kt[1]), FALSE, kt[2])

\* attr_sort_key((k, v))
attr_sort_key(k) == sort_key(split_key(k))

\* The first two components of two sort keys are equal
SameHead(a, b) == a.inf = b.inf /\ a.n = b.n /\ a.ktype = b.ktype

\* a < b raises TypeError: the tuples first differ where one holds None and
\* the other a string
Incomparable(a, b) == SameHead(a, b) /\ a.none # b.none

\* a < b for two sort keys that can be compared
KeyLess(a, b) ==
    IF a.inf # b.inf THEN b.inf
    ELSE IF a.n # b.n THEN a.n < b.n
    ELSE IF a.ktype # b.ktype THEN StrLess(a.ktype, b.ktype)
    ELSE ~a.none /\ ~b.none /\ StrLess(a.kvalue, b.kvalue)

\* The sort keys of the items of a dict
sort_keys(items) == [n \in DOMAIN items |-> attr_sort_key(items[n][1])]

\* sorted(data.items(), key=attr_sort_key) of line 535 for the keys of the
\* items, when they can be compared
sorted_by(items, keys) == StableSort(items, [a, b \in DOMAIN items |-> KeyLess(keys[a], keys[b])])

sorted_items(items) == sorted_by(items, sort_keys(items))

\* Sorting raises when two of the keys cannot be compared
raises_by(keys) == \E a, b \in DOMAIN keys : Incomparable(keys[a], keys[b])

SortRaises(items) == raises_by(sort_keys(items))

\* Line 512: the key of a define record
define_key(d) == Get(d, "group_name").sval \o "." \o Get(d, "attribute_name").sval

\* Line 513 for the define records ds in their order
define_line(ds, i_n) ==
    [n \in DOMAIN ds |->
        Indent(i_n) \o "define(" \o Get(ds[n], "attribute_name").sval \o ","
            \o Get(ds[n], "group_name").sval \o ","
            \o Get(ds[n], "attribute_type").sval \o ");"]

\* Lines 511-514: the define lines and the blank line after them
define_lines(defs, i_n) ==
    define_line(StableSort(defs.elems,
                           [a, b \in DOMAIN defs.elems |->
                              StrLess(define_key(defs.elems[a]), define_key(defs.elems[b]))]),
                i_n) \o <<"">>

\* a.items() < b.items() for two dicts: a proper subset
ItemsLess(a, b) == Range(a.items) \subseteq Range(b.items) /\ Range(a.items) # Range(b.items)

\* sorted(v, key=k) of line 557 for a list of at most two dicts, the key
\* being the items view
sorted_groups(v) ==
    IF Len(v) = 2 /\ v[1].kind = "dict" /\ v[2].kind = "dict" /\ ItemsLess(v[2], v[1])
    THEN <<v[2], v[1]>>
    ELSE v

RECURSIVE liberty_dict(_, _, _, _)

\* Lines 557-558: a group for each dict of the list ls
groups(ktype, kvalue, ls, i_n) ==
    Extend([n \in DOMAIN ls |-> liberty_dict(ktype, kvalue, ls[n], i_n)])

\* Lines 537-570 for one item k, v, with ktype, kvalue = kt
attr(k, v, kt, i_n) ==
    IF kt[1] = "comp_attribute" THEN liberty_composite(i_n, kt[2], v)
    ELSE IF v.kind = "dict" THEN liberty_dict(kt[1], kt[2], v, i_n)
    ELSE IF v.kind = "list"
    THEN IF Len(v.elems) = 0 THEN Fail("AssertionError")
         ELSE IF v.elems[1].kind = "dict" THEN groups(kt[1], kt[2], sorted_groups(v.elems), i_n)
         ELSE IF is_liberty_list(k) THEN liberty_list(i_n, k, v.elems)
         ELSE Fail("ValueError")
    ELSE Ok(<<Indent(i_n) \o k \o " : "
                \o (IF v.kind = "str" THEN json_dumps(v) ELSE liberty_float(v))
                \o ";">>)

\* Lines 535-570 for the sorted items
attrs(items, i_n) ==
    Extend([n \in DOMAIN items |-> attr(items[n][1], items[n][2], split_key(items[n][1]), i_n)])

\* Lines 506 and 572 around the define lines and the lines of the items
group(header, defs, body, i) ==
    IF body.ok THEN Ok(<<header>> \o defs \o body.lines \o <<Indent(i) \o "}">>)
    ELSE body

\* Lines 535-573 for the items that are left when "define" is deleted
items_group(header, defs, items, i) ==
    IF SortRaises(items) THEN Fail("TypeError")
    ELSE group(header, defs, attrs(sorted_items(items), i + 1), i)

\* Lines 504-506: the first line of the group
group_header(dtype, dvalue, i) ==
    Indent(i) \o dtype \o " (" \o (IF dvalue # "" THEN "\"" \o dvalue \o "\"" ELSE "") \o ") {"

\* liberty_dict(dtype, dvalue, data, i)
liberty_dict(dtype, dvalue, data, i) ==
    IF data.kind # "dict" THEN Fail("AssertionError")
    ELSE IF "define" \in Keys(data)
    THEN items_group(group_header(dtype, dvalue, i), define_lines(Get(data, "define"), i + 1),
                     Del(data, "define").items, i)
    ELSE items_group(group_header(dtype, dvalue, i), <<>>, data.items, i)

(***************************************************************************)
(* The library trees the model runs on                                     *)
(***************************************************************************)

LibName == "sky130_fd_sc_hd"
CellNames == {"buf_2", "inv_1"}
CornerNames == {"ff_100C_1v65", "ss_100C_1v60"}
SingleTypes == {basic, ccsnoise, leakage}

\* At most this many files of a complete tree are missing
MaxMissing == 1

\* Files outside the layout: a cell file of another library, and a cell file
\* kept in a directory that is not the cell's
StrayFiles == {"cells/inv/sky130_fd_sc_hs__inv_1__ff_100C_1v65.lib.json",
               "cells/old/sky130_fd_sc_hd__inv_1__ss_100C_1v60_pwrlkg.lib.json"}

\* The complete tree of a library whose corner c is characterized with the
\* variants have[c]: every cell's file and the top-level file of each, and the
\* common fragment
CompleteTree(have) ==
    LET pairs == {ct \in CornerNames \X SingleTypes : ct[2] \in have[ct[1]]}
    IN  {cell_corner_file(LibName, cell, ct[1], ct[2]) : cell \in CellNames, ct \in pairs}
            \cup {top_corner_file(LibName, ct[1], ct[2]) : ct \in pairs}
            \cup {common_data_path(LibName)}

\* The trees: a complete tree less at most MaxMissing of its files, with at
\* most one stray file
Trees ==
    UNION {
        {{p : p \in (full \ gone) \cup stray} :
            gone \in {g \in SUBSET full : Cardinality(g) <= MaxMissing},
            stray \in {{}} \cup {{f} : f \in StrayFiles}}
        : full \in {CompleteTree(have) : have \in [CornerNames -> SUBSET SingleTypes]}}


\* Every file of every tree
AllFiles == {p : p \in CompleteTree([c \in CornerNames |-> SingleTypes]) \cup StrayFiles}

\* The library names the file names of the trees carry
LibNames == {LibName, "sky130_fd_sc_hs"}

\* The function with domain S and the values tab[x], x in S, written out
RECURSIVE Tabulated(_, _)
Tabulated(S, tab) ==
    IF S = {} THEN <<>>
    ELSE LET x == CHOOSE y \in S : TRUE
         IN  (x :> tab[x]) @@ Tabulated(S \ {x}, tab)

\* cell_corner_file and top_corner_file, tabulated for the names of the trees
cell_corner_file_of ==
    Tabulated(LibNames \X CellNames \X CornerNames \X SingleTypes,
              [x \in LibNames \X CellNames \X CornerNames \X SingleTypes |->
                  cell_corner_file(x[1], x[2], x[3], x[4])])

top_corner_file_of ==
    Tabulated(LibNames \X CornerNames \X SingleTypes,
              [x \in LibNames \X CornerNames \X SingleTypes |-> top_corner_file(x[1], x[2], x[3])])

(***************************************************************************)
(* collect                                                                 *)
(***************************************************************************)

NoError == [type |-> "", what |-> ""]
Raise(type, what) == [type |-> type, what |-> what]

\* p.name
basename(p) == SubSeq(p, RFind(p, "/") + 1, Len(p))

\* Lines 198-200: str(p.name).split('.', 1)[0].split("__")
name_parts(p) ==
    LET name == basename(p)
        fname == SubSeq(name, 1, Find(name, ".") - 1)
    IN  Split(fname, "__")

\* The files the loop of lines 192-196 does not skip
cell_files(files) ==
    {p \in files : EndsWith(basename(p), ".lib.json") /\ ~Contains(p, "timing")}

\* Lines 198-205 for one file: the pieces of its name and the parsed corner
file_info(p) ==
    LET parts == name_parts(p)
        three == Len(parts) = 3
        corner == IF three THEN parse(parts[3]) ELSE <<"", 0>>
    IN  [three |-> three,
         libname |-> parts[1],
         cellname |-> IF three THEN parts[2] ELSE "",
         corner_name |-> corner[1],
         corner_type |-> corner[2]]

\* cell_files and file_info, tabulated for the files of the trees
cell_files_of == {p : p \in cell_files(AllFiles)}
file_info_of == Tabulated(cell_files_of, [p \in cell_files_of |-> file_info(p)])

\* os.path.exists(timing_dir): a directory exists when something is in it
timing_dir_exists(files, outputs) ==
    \E p \in files \cup outputs : StartsWith(p, "timing/")

\* A collect without the sanity checks of lines 226 and 234
none_missing(paths, files) == ""

\* The first entry of a sequence of paths that is not on disk, "" when all are
first_missing(paths, files) ==
    LET gone == {n \in DOMAIN paths : paths[n] \notin files}
    IN  IF gone = {} THEN ""
        ELSE paths[CHOOSE n \in gone : \A m \in gone : n <= m]

\* Lines 209-212 for the corner types ts parsed for one corner name: the
\* first is recorded and each further one is or-ed into the record
RECURSIVE corner_types(_)
corner_types(ts) ==
    IF ts = {} THEN 0
    ELSE LET t == CHOOSE x \in ts : TRUE
         IN  FlagOr(corner_types(ts \ {t}), t)

\* What a collect that raises leaves
fails(e) == [ok |-> FALSE, lib |-> "", corners |-> <<>>, cells |-> <<>>, err |-> e]

\* Lines 223-224 for one cell and one corner with the types ts
cell_files_for(libname0, cell_with_size, corner, ts) ==
    [n \in DOMAIN ts |-> cell_corner_file_of[libname0, cell_with_size, corner, ts[n]]]

\* Lines 221-224: the per-cell files of the sanity check, in its order
cell_paths(libname0, corners, cells, cs) ==
    Flatten([a \in DOMAIN cells |-> Flatten([b \in DOMAIN cs |->
        cell_files_for(libname0, cells[a], cs[b], typesList(corners[cs[b]]))])])

\* Lines 231-232 for one corner with the types ts
top_files_for(libname0, corner, ts) ==
    [n \in DOMAIN ts |-> top_corner_file_of[libname0, corner, ts[n]]]

\* Lines 230-232: the top-level files of the sanity check, in its order
top_paths(libname0, corners, cs) ==
    Flatten([b \in DOMAIN cs |-> top_files_for(libname0, cs[b], typesList(corners[cs[b]]))])

\* Lines 220-236, cell_gone and top_gone being the first file that each
\* sanity check does not find
checked(files, outputs, libname0, corners, cells, cell_gone, top_gone) ==
    IF cell_gone # "" THEN fails(Raise("AssertionError", cell_gone))
    ELSE IF ~timing_dir_exists(files, outputs) THEN fails(Raise("AssertionError", "timing"))
    ELSE IF top_gone # "" THEN fails(Raise("AssertionError", top_gone))
    ELSE [ok |-> TRUE, lib |-> libname0, corners |-> corners, cells |-> cells, err |-> NoError]

\* Lines 218-236 for the library name, the corners and the sorted cells and
\* corner names
sanity(files, outputs, libname0, corners, cells, cs) ==
    checked(files, outputs, libname0, corners, cells,
            first_missing(cell_paths(libname0, corners, cells, cs), files),
            first_missing(top_paths(libname0, corners, cs), files))

\* The corners of line 190 after the loop, for the corner names of the files
corners_of(found, names) ==
    [c \in names |-> corner_types({f.corner_type : f \in {x \in found : x.corner_name = c}})]

\* Lines 198-236 for the files the loop does not skip
collected(files, outputs, found) ==
    IF \E f \in found : ~f.three THEN fails(Raise("ValueError", "unpack"))
    ELSE IF Cardinality({f.libname : f \in found}) > 1
    THEN fails(Raise("AssertionError", "libname"))
    ELSE IF found = {} THEN fails(Raise("AssertionError", "library_dir"))
    ELSE sanity(files, outputs, CHOOSE l \in {f.libname : f \in found} : TRUE,
                corners_of(found, {f.corner_name : f \in found}),
                sorted({f.cellname : f \in found}),
                sorted({f.corner_name : f \in found}))

\* collect(library_dir) on the tree files (outputs: the .lib files in it):
\* what it returns, or the exception it raises
collect(files, outputs) ==
    collected(files, outputs, {file_info_of[p] : p \in files \cap cell_files_of})

(***************************************************************************)
(* generate                                                                *)
(***************************************************************************)

\* What open(path) reads: the three kinds of fragment of a tree
read(frag, path) ==
    IF EndsWith(path, "__common.lib.json") THEN frag.common
    ELSE IF StartsWith(path, "timing/") THEN frag.top
    ELSE frag.cell

\* The state of generate: the lines written to top_fout, the files read and
\* the exception raised, if any
Gen(text, reads, err) == [text |-> text, reads |-> reads, err |-> err]

\* Lines 301-302 and 317-318
strip(ocorner_type, data) ==
    IF ocorner_type # ccsnoise THEN remove_ccsnoise(data) ELSE data

\* Lines 320-321, o being what liberty_dict returned or raised
cell_written(g, fpath, o) ==
    IF ~o.ok THEN Gen(g.text \o <<"">>, g.reads \cup {fpath}, Raise(o.err, fpath))
    ELSE Gen(g.text \o <<"">> \o o.lines, g.reads \cup {fpath}, NoError)

\* Lines 313-321 for the cell whose fragment cell_data is in fpath
write_cell(g, lib, cell_with_size, ocorner_type, fpath, cell_data) ==
    IF ocorner_type # ccsnoise /\ cell_data.kind # "dict"
    THEN Gen(g.text, g.reads \cup {fpath}, Raise("AttributeError", fpath))
    ELSE cell_written(g, fpath,
                      liberty_dict("cell", lib \o "__" \o cell_with_size,
                                   strip(ocorner_type, cell_data), 1))

\* Lines 309-321 for one cell
open_cell(files, frag, g, lib, cell_with_size, ocorner_type, fpath) ==
    IF fpath \notin files THEN Gen(g.text, g.reads, Raise("AssertionError", fpath))
    ELSE write_cell(g, lib, cell_with_size, ocorner_type, fpath, read(frag, fpath))

\* Lines 308-321: the loop over the cells, from the state g
RECURSIVE write_cells(_, _, _, _, _, _, _, _)
write_cells(files, frag, lib, corner, ocorner_type, icorner_type, cells, g) ==
    IF cells = <<>> \/ g.err # NoError THEN g
    ELSE write_cells(files, frag, lib, corner, ocorner_type, icorner_type, Tail(cells),
                     open_cell(files, frag, g, lib, Head(cells), ocorner_type,
                               cell_corner_file_of[lib, Head(cells), corner, icorner_type]))

\* A generate without the assertion of line 297
no_collisions(common, top) == <<>>

\* The keys of the top-level fragment that common_data holds already, in the
\* order of the fragment (line 297)
collisions(common, top) == SelectSeq(top.items, LAMBDA kv : kv[1] \in Keys(common))

\* Lines 323-325 after the loop over the cells
closed(g) == IF g.err # NoError THEN g ELSE Gen(g.text \o <<"", "}">>, g.reads, NoError)

\* Lines 304-325, output being what liberty_dict returned or raised for the
\* library group
write_library(files, frag, lib, corner, ocorner_type, icorner_type, cells, tpath, reads, output) ==
    IF ~output.ok THEN Gen(<<>>, reads, Raise(output.err, tpath))
    ELSE closed(write_cells(files, frag, lib, corner, ocorner_type, icorner_type, cells,
                            Gen(SubSeq(output.lines, 1, Len(output.lines) - 1), reads, NoError)))

\* Lines 296-325 for the common and the top-level fragment, both objects
merge(files, frag, lib, corner, ocorner_type, icorner_type, cells, cpath, tpath, common, top, clash) ==
    IF clash # <<>> THEN Gen(<<>>, {cpath, tpath}, Raise("AssertionError", clash[1][1]))
    ELSE write_library(files, frag, lib, corner, ocorner_type, icorner_type, cells, tpath,
                       {cpath, tpath},
                       liberty_dict("library", lib \o "__" \o corner,
                                    strip(ocorner_type, Dict(common.items \o top.items)), 0))

\* Lines 280-325 for the paths of the common and of the top-level fragment
load(files, frag, lib, corner, ocorner_type, icorner_type, cells, cpath, tpath) ==
    IF cpath \notin files THEN Gen(<<>>, {}, Raise("AssertionError", cpath))
    ELSE IF read(frag, cpath).kind # "dict" THEN Gen(<<>>, {cpath}, Raise("AssertionError", cpath))
    ELSE IF tpath \notin files THEN Gen(<<>>, {cpath}, Raise("AssertionError", tpath))
    ELSE IF read(frag, tpath).kind # "dict"
    THEN Gen(<<>>, {cpath, tpath}, Raise("AssertionError", tpath))
    ELSE merge(files, frag, lib, corner, ocorner_type, icorner_type, cells, cpath, tpath,
               read(frag, cpath), read(frag, tpath),
               collisions(read(frag, cpath), read(frag, tpath)))

\* generate(library_dir, lib, corner, ocorner_type, icorner_type, cells) on the
\* tree files with the fragments frag: the lines the output file holds when it
\* returns or raises (line 273 has opened it for writing by then), the files
\* it has read and the exception
generate(files, frag, lib, corner, ocorner_type, icorner_type, cells) ==
    load(files, frag, lib, corner, ocorner_type, icorner_type, cells,
         common_data_path(lib), top_corner_file_of[lib, corner, icorner_type])

\* The corner names a request can hold: the corners, "all", and a corner no
\* tree has
RequestNames == CornerNames \cup {"all", "tt_025C_1v80"}

\* At most this many corners are requested
MaxArgs == 2

Requests == UNION {[1..n -> RequestNames] : n \in 0..MaxArgs}

\* Fragments: a JSON object of simple attributes, or a JSON array
Attrs(keys) == Dict([n \in DOMAIN keys |-> <<keys[n], JStr("x")>>])
NotObject == List(<<>>)

Fragment(common, top, cell) == [common |-> common, top |-> top, cell |-> cell]

\* What the files hold: fragments with keys of their own, a key of the common
\* fragment again in the top-level fragment or in the cell fragment, and a
\* fragment that is no object
Fragments ==
    {Fragment(Attrs(<<"technology">>), Attrs(<<"delay_model">>), Attrs(<<"area">>)),
     Fragment(Attrs(<<"technology">>), Attrs(<<"delay_model", "technology">>), Attrs(<<"area">>)),
     Fragment(Attrs(<<"technology">>), Attrs(<<"delay_model">>), Attrs(<<"technology">>)),
     Fragment(NotObject, Attrs(<<"delay_model">>), Attrs(<<"area">>)),
     Fragment(Attrs(<<"technology">>), NotObject, Attrs(<<"area">>)),
     Fragment(Attrs(<<"technology">>), Attrs(<<"delay_model">>), NotObject)}

\* The output files a run can write
OutPaths == {top_fname(top_corner_file(LibName, ct[1], ct[2])) : ct \in CornerNames \X SingleTypes}

\* top_fname, tabulated
top_fname_of ==
    LET tops == {top_corner_file_of[x] : x \in DOMAIN top_corner_file_of}
    IN  Tabulated(tops, [p \in tops |-> top_fname(p)])

Absent == [exists |-> FALSE, text |-> <<>>]
\* An output file of an earlier run
Old == [exists |-> TRUE, text |-> <<"library (\"old\") {", "", "}">>]

\* Before a run no output file exists, or each is there from an earlier run
OutInit == {[p \in OutPaths |-> Absent], [p \in OutPaths |-> Old]}

(***************************************************************************)
(* The driver                                                              *)
(***************************************************************************)

Start ==
    /\ pc = "collect"
    /\ library = ""
    /\ corner_map = <<>>
    /\ cell_list = <<>>
    /\ requested = <<>>
    /\ output_corner_type = basic
    /\ args_corner = <<>>
    /\ next_arg = 1
    /\ retcode = -1
    /\ calls = <<>>
    /\ last_reads = {}
    /\ error = NoError
    /\ raised_in = ""
    /\ listed = FALSE
    /\ given = <<>>
    /\ returned = <<>>

Init ==
    /\ tree \in Trees
    /\ holds \in Fragments
    /\ out \in OutInit
    /\ Start

\* Line 608: lib, corners, cells = collect(libdir)
Collect ==
    /\ pc = "collect"
    /\ \E r \in {collect(tree, {p \in OutPaths : out[p].exists})} :
           /\ pc' = IF r.ok THEN "args" ELSE "abort"
           /\ library' = r.lib
           /\ corner_map' = r.corners
           /\ cell_list' = r.cells
           /\ error' = r.err
           /\ raised_in' = IF r.ok THEN "" ELSE "collect"
    /\ UNCHANGED <<tree, holds, out, requested, output_corner_type, args_corner, next_arg,
                   retcode, calls, last_reads, listed, given, returned>>

\* Lines 617-618: "all" stands for the corners that support the output variant
expand_all(corner, oct, corners) ==
    IF corner = <<"all">>
    THEN sorted({k \in DOMAIN corners : FlagIn(oct, corners[k])})
    ELSE corner

\* The check of lines 620-626 stopped after the first requested name
check_first_corner(corner, corners) ==
    IF corner # <<>> /\ corner[1] \notin DOMAIN corners THEN 1 ELSE 0

\* Lines 620-626: retcode after the check of the requested names
check_corners(corner, corners) ==
    IF corner # <<>> /\ \E n \in DOMAIN corner : corner[n] \notin DOMAIN corners THEN 1 ELSE 0

\* Lines 610-636: the output variant from the flags, "all", the check of the
\* requested names, and the listing that ends the run
CheckArgs ==
    /\ pc = "args"
    /\ \E oct \in SingleTypes, req \in Requests :
        LET asked == expand_all(req, oct, corner_map)
            rc == check_corners(asked, corner_map)
            left == IF rc # 0 THEN <<>> ELSE asked
        IN  /\ requested' = req
            /\ output_corner_type' = oct
            /\ args_corner' = left
            /\ IF left = <<>>
               THEN /\ listed' = TRUE
                    /\ retcode' = rc
                    /\ pc' = "done"
               ELSE /\ listed' = FALSE
                    /\ retcode' = -1
                    /\ pc' = "loop"
    /\ UNCHANGED <<tree, holds, out, library, corner_map, cell_list, next_arg, calls,
                   last_reads, error, raised_in, given, returned>>

\* Lines 644-647 without the preference for the ccsnoise fragments
same_corner_type(oct, discovered) == oct

\* Lines 644-647: the variant of the fragments generate reads
input_corner_type(oct, discovered) ==
    IF oct = basic /\ FlagIn(ccsnoise, discovered) THEN ccsnoise ELSE oct

\* Lines 638-654: one turn of the loop over the requested corners, the call
\* of generate included, and the return after the last
Loop ==
    /\ pc = "loop"
    /\ LET corner == args_corner[next_arg]
       IN  IF corner \notin DOMAIN corner_map
           THEN \* line 639: corners[corner]
                /\ error' = Raise("KeyError", corner)
                /\ raised_in' = "main"
                /\ pc' = "abort"
                /\ UNCHANGED <<out, next_arg, calls, last_reads, retcode>>
           ELSE IF ~FlagIn(output_corner_type, corner_map[corner])
           THEN /\ retcode' = 1
                /\ pc' = "done"
                /\ UNCHANGED <<out, next_arg, calls, last_reads, error, raised_in>>
           ELSE \E ict \in {input_corner_type(output_corner_type, corner_map[corner])} :
                \E g \in {generate(tree, holds, library, corner, output_corner_type, ict,
                                   cell_list)} :
                LET path == top_fname_of[top_corner_file_of[library, corner, output_corner_type]]
                IN  /\ calls' = Append(calls, <<corner, output_corner_type, ict>>)
                    /\ out' = [out EXCEPT ![path] = [exists |-> TRUE, text |-> g.text]]
                    /\ last_reads' = g.reads
                    /\ error' = g.err
                    /\ raised_in' = IF g.err # NoError THEN "generate" ELSE ""
                    /\ next_arg' = next_arg + 1
                    /\ pc' = IF g.err # NoError THEN "abort"
                             ELSE IF next_arg = Len(args_corner) THEN "done" ELSE "loop"
                    /\ retcode' = IF g.err = NoError /\ next_arg = Len(args_corner) THEN 0 ELSE -1
    /\ UNCHANGED <<tree, holds, library, corner_map, cell_list, requested, output_corner_type,
                   args_corner, listed, given, returned>>

Next == Collect \/ CheckArgs \/ Loop

Spec == Init /\ [][Next]_vars

(***************************************************************************)
(* The driver on a library with ccsnoise data: one cell and one corner     *)
(* with a basic and a ccsnoise file, and a noise key in each of the places *)
(* a fragment can hold one                                                 *)
(***************************************************************************)

NoiseCorner == "ff_100C_1v65"
NoiseTree ==
    {cell_corner_file(LibName, "inv_1", NoiseCorner, t) : t \in {basic, ccsnoise}}
        \cup {top_corner_file(LibName, NoiseCorner, t) : t \in {basic, ccsnoise}}
        \cup {common_data_path(LibName)}

\* A noise group, and a group of a timing entry that holds one
Stage == Dict(<<<<"is_needed", JStr("x")>>>>)
Arc(key, v) == Dict(<<<<"related_pin", JStr("a")>>, <<key, v>>>>)

\* A cell fragment with the pin group pin
CellWith(pin) == Dict(<<<<"area", JStr("x")>>, <<"pin a", pin>>>>)

NoiseCells ==
    {\* no noise key
     CellWith(Dict(<<<<"timing", List(<<Arc("timing_type", JStr("x"))>>)>>>>)),
     \* at cell level
     Dict(<<<<"area", JStr("x")>>, <<"ccsn_first_stage", Stage>>>>),
     \* directly inside the pin group
     CellWith(Dict(<<<<"direction", JStr("x")>>, <<"ccsn_first_stage", Stage>>>>)),
     \* inside the entries of the pin's timing list
     CellWith(Dict(<<<<"timing", List(<<Arc("ccsn_first_stage", Stage),
                                         Arc("ccsn_last_stage", Stage)>>)>>>>)),
     \* inside a pin's timing that is one group
     CellWith(Dict(<<<<"timing", Arc("ccsn_first_stage", Stage)>>>>)),
     \* deeper: in a group of a timing entry
     CellWith(Dict(<<<<"timing", List(<<Arc("mode a", Dict(<<<<"ccsn_first_stage", Stage>>>>))>>)>>>>)),
     \* the input voltage of a pin, which is removed with the noise keys
     CellWith(Dict(<<<<"input_voltage", JStr("x")>>, <<"direction", JStr("x")>>>>))}

NoiseFragments ==
    {Fragment(Attrs(<<"technology">>), top, cell) :
        top \in {Attrs(<<"delay_model">>), Attrs(<<"delay_model", "ccsn_margin">>)},
        cell \in NoiseCells}

InitStrip ==
    /\ tree = NoiseTree
    /\ holds \in NoiseFragments
    /\ out \in OutInit
    /\ Start

SpecStrip == InitStrip /\ [][Next]_vars

(***************************************************************************)
(* The serializer called on its own                                        *)
(***************************************************************************)

\* main is not running
NotRunning ==
    /\ tree = {}
    /\ holds = <<>>
    /\ out = [p \in OutPaths |-> Absent]
    /\ library = ""
    /\ corner_map = <<>>
    /\ cell_list = <<>>
    /\ requested = <<>>
    /\ output_corner_type = basic
    /\ args_corner = <<>>
    /\ next_arg = 1
    /\ retcode = -1
    /\ calls = <<>>
    /\ last_reads = {}
    /\ error = NoError
    /\ raised_in = ""
    /\ listed = FALSE

\* The keys of a group: the keys of the doctests of liberty_sort, keys with
\* the same number after the underscore, a key with text after the number,
\* keys of groups with a name, and a composite attribute
SortKeys == {"variable_1", "index_3", "values", "index_1", "index_01", "x_1y",
             "pin a", "pin b", "related", "comp_attribute related"}

\* A group has at most this many keys
MaxKeys == 3

KeyLists ==
    {ks \in UNION {[1..n -> SortKeys] : n \in 1..MaxKeys} :
        \A a, b \in DOMAIN ks : a # b => ks[a] # ks[b]}

\* A value for the key k: the members of a composite attribute, or a string
ValueOf(k) == IF StartsWith(k, "comp_attribute ") THEN List(<<JStr("x")>>) ELSE JStr("x")

\* The group with the keys ks, in this order
GroupOf(ks) == Dict([n \in DOMAIN ks |-> <<ks[n], ValueOf(ks[n])>>])

InitSort ==
    /\ NotRunning
    /\ pc = "call"
    /\ given \in KeyLists
    /\ returned = <<>>

\* liberty_dict("cell", "c", data) for the group of the given keys
SortAttributes ==
    /\ pc = "call"
    /\ given \in KeyLists
    /\ returned' = liberty_dict("cell", "c", GroupOf(given), 0)
    /\ pc' = "returned"
    /\ UNCHANGED <<tree, holds, out, library, corner_map, cell_list, requested,
                   output_corner_type, args_corner, next_arg, retcode, calls, last_reads,
                   error, raised_in, listed, given>>

SpecSort == InitSort /\ [][SortAttributes]_vars

\* The scalars of a list attribute: an integer, a float, a string
Scalars == {JInt(1), JFloat("1.5"), JStr("x")}

\* A row has at most this many numbers, a table at most this many rows
MaxRow == 2
MaxRows == 2

NumberRows == UNION {[1..n -> Scalars] : n \in 1..MaxRow}
NumberTables == UNION {[1..n -> {List(r) : r \in NumberRows}] : n \in 1..MaxRows}

InitJoin ==
    /\ NotRunning
    /\ pc = "call"
    /\ given \in NumberRows \cup NumberTables
    /\ returned = <<>>

\* liberty_list(1, "values", v) for the given list or table
RenderList ==
    /\ pc = "call"
    /\ given \in NumberRows \cup NumberTables
    /\ returned' = liberty_list(1, "values", given)
    /\ pc' = "returned"
    /\ UNCHANGED <<tree, holds, out, library, corner_map, cell_list, requested,
                   output_corner_type, args_corner, next_arg, retcode, calls, last_reads,
                   error, raised_in, listed, given>>

SpecJoin == InitJoin /\ [][RenderList]_vars

(***************************************************************************)
(* Properties of a run of the driver                                       *)
(***************************************************************************)

\* collect has returned
CollectOk == pc # "collect" /\ raised_in # "collect"

\* What the tree holds, read off the names of its per-cell files
Seen == {file_info_of[p] : p \in tree \cap cell_files_of}
SeenCorners == {f.corner_name : f \in Seen}
SeenCells == {f.cellname : f \in Seen}
SeenVariants(c) == {f.corner_type : f \in {x \in Seen : x.corner_name = c}}

\* The files the record v of corner c requires of the library lib with the cells cs
Required(lib, cs, c, v) ==
    {cell_corner_file_of[lib, cell, c, t] : cell \in cs, t \in types(v)}
        \cup {top_corner_file_of[lib, c, t] : t \in types(v)}

\* The output file of the n-th call of generate
OutputOf(n) == top_fname_of[top_corner_file_of[library, calls[n][1], calls[n][2]]]

\* C1: when generate raises, the output file of the corner it was writing is
\* as it was before the run: not created, and not overwritten
C1_NoPartialOutput ==
    raised_in = "generate" => out[OutputOf(Len(calls))] \in {Absent, Old}

\* C3 as stated: after a successful collect every corner maps to exactly one
\* of the variants basic, ccsnoise, leakage
C3_OneVariantPerCorner ==
    CollectOk => \A c \in DOMAIN corner_map : corner_map[c] \in {basic, ccsnoise, leakage}

\* C3: after a successful collect the corner map has the corner names of the
\* per-cell files, and each maps to the union (bitwise or) of the variants of
\* the files with that name, so to one of basic, ccsnoise, leakage,
\* basic|leakage, ccsnoise|leakage
C3_UnionOfVariants ==
    CollectOk =>
        /\ DOMAIN corner_map = SeenCorners
        /\ \A c \in DOMAIN corner_map :
            /\ Bits(corner_map[c]) = UNION {Bits(t) : t \in SeenVariants(c)}
            /\ corner_map[c] \in {basic, ccsnoise, leakage, basic + leakage, ccsnoise + leakage}

\* A corner with all three variants on disk is recorded as ccsnoise|leakage
C3_Witness ==
    /\ CollectOk
    /\ \E c \in DOMAIN corner_map :
        SeenVariants(c) = SingleTypes /\ corner_map[c] = ccsnoise + leakage

C5_CommonValidated ==
    CollectOk => common_data_path(library) \in tree

\* A key that two of the three fragments hold
SharedKey ==
    \E pair \in {<<holds.common, holds.top>>, <<holds.common, holds.cell>>,
                 <<holds.top, holds.cell>>} :
        /\ pair[1].kind = "dict"
        /\ pair[2].kind = "dict"
        /\ Keys(pair[1]) \cap Keys(pair[2]) # {}

C7_UnknownCorner ==
    (/\ CollectOk
     /\ pc # "args"
     /\ requested # <<"all">>
     /\ \E n \in DOMAIN requested : requested[n] \notin DOMAIN corner_map) =>
        /\ pc = "done"
        /\ retcode = 1
        /\ listed
        /\ calls = <<>>
        /\ out \in OutInit
        /\ error = NoError

\* A request of a corner of the library and of an unknown one has failed
C7_Witness ==
    /\ pc = "done"
    /\ retcode = 1
    /\ listed
    /\ Len(requested) = 2
    /\ requested[1] \in DOMAIN corner_map
    /\ requested[2] \notin DOMAIN corner_map

\* The corner of the n-th request supports the output variant
Supported(n) ==
    /\ args_corner[n] \in DOMAIN corner_map
    /\ FlagIn(output_corner_type, corner_map[args_corner[n]])

\* C10: generate is called only after a successful collect, for the
\* requested corners in their order, with a corner that supports the output
\* variant and with a single input variant that is one of the variants
\* collect checked for that corner; so its assertions on the per-cell and
\* top-level files never fail; and the first corner that does not support the
\* output variant ends the run with the failure status
C10_DriverInvariant ==
    /\ calls # <<>> => CollectOk /\ library # ""
    /\ Len(calls) <= Len(args_corner)
    /\ \A n \in DOMAIN calls :
        /\ calls[n][1] = args_corner[n]
        /\ calls[n][2] = output_corner_type
        /\ \A m \in 1..n : Supported(m)
        /\ calls[n][3] \in SingleTypes
        /\ calls[n][3] \in types(corner_map[calls[n][1]])
        /\ calls[n][3] = IF output_corner_type = basic
                            /\ ccsnoise \in types(corner_map[calls[n][1]])
                         THEN ccsnoise ELSE output_corner_type
        /\ Required(library, Range(cell_list), calls[n][1], calls[n][3]) \subseteq tree
    /\ (raised_in = "generate" /\ Contains(error.what, "/")) =>
        error.what \in tree \/ error.what = common_data_path(library)
    /\ (pc = "done" /\ args_corner # <<>>) =>
        IF \A n \in DOMAIN args_corner : Supported(n)
        THEN retcode = 0 /\ Len(calls) = Len(args_corner)
        ELSE /\ retcode = 1
             /\ ~Supported(Len(calls) + 1)

\* The first requested corner was generated from its ccsnoise fragments, the
\* second does not support the output variant
C10_Witness ==
    /\ pc = "done"
    /\ retcode = 1
    /\ Len(calls) = 1
    /\ Len(args_corner) = 2
    /\ calls[1][2] = basic
    /\ calls[1][3] = ccsnoise
    /\ error = NoError

(***************************************************************************)
(* Properties of the output for a library with ccsnoise data               *)
(***************************************************************************)

\* The n-th call of generate has returned
Returned(n) == n < Len(calls) \/ error = NoError

\* The lines of a text that hold the noise marker
NoiseLines(text) == {n \in DOMAIN text : Contains(text[n], "ccsn_")}

\* The number of keys with the noise marker in a value tree
RECURSIVE NoiseKeys(_)
NoiseKeys(v) ==
    IF v.kind = "dict"
    THEN LET at(n) == (IF Contains(v.items[n][1], "ccsn_") THEN 1 ELSE 0)
                        + NoiseKeys(v.items[n][2])
             sum[n \in 0..Len(v.items)] == IF n = 0 THEN 0 ELSE sum[n - 1] + at(n)
         IN  sum[Len(v.items)]
    ELSE IF v.kind = "list"
    THEN LET sum[n \in 0..Len(v.elems)] ==
                IF n = 0 THEN 0 ELSE sum[n - 1] + NoiseKeys(v.elems[n])
         IN  sum[Len(v.elems)]
    ELSE 0

\* C2: a call of generate for the basic output of a corner with ccsnoise
\* data reads the ccsnoise fragments, and the text it writes has no line with
\* the marker "ccsn_", wherever the fragments hold the noise keys; the text of
\* a call for the ccsnoise output has a line for each of the noise keys
C2_NoNoiseInBasic ==
    \A n \in DOMAIN calls :
        /\ (calls[n][2] = basic /\ FlagIn(ccsnoise, corner_map[calls[n][1]])) =>
            /\ calls[n][3] = ccsnoise
            /\ Returned(n) =>
                /\ NoiseLines(out[OutputOf(n)].text) = {}
                /\ n = Len(calls) =>
                    \A p \in last_reads :
                        EndsWith(p, "_ccsnoise.lib.json") \/ p = common_data_path(library)
        /\ (calls[n][2] = ccsnoise /\ Returned(n)) =>
            Cardinality(NoiseLines(out[OutputOf(n)].text))
                = NoiseKeys(holds.common) + NoiseKeys(holds.top) + NoiseKeys(holds.cell)

(***************************************************************************)
(* Properties of the serializer                                            *)
(***************************************************************************)

\* The order C8 states.  What a key sorts under: the name of a composite
\* attribute, the type of a "type value" key; a numeric suffix is an
\* underscore and digits that end the name
StatedKey(k) ==
    LET kt == split_key(k)
        comp == kt[1] = "comp_attribute"
        name == IF comp THEN kt[2] ELSE kt[1]
        us == RFind(name, "_")
        digits == SubSeq(name, us + 1, Len(name))
        suffixed == /\ us > 0
                    /\ digits # ""
                    /\ \A n \in 1..Len(digits) : IsDigit(SubSeq(digits, n, n))
    IN  [suffixed |-> suffixed,
         n |-> IF suffixed THEN StrToInt(digits) ELSE 0,
         name |-> IF suffixed THEN SubSeq(name, 1, us - 1) ELSE name,
         value |-> IF comp THEN "" ELSE kt[2]]

StatedBefore(a, b) ==
    IF a.suffixed # b.suffixed THEN a.suffixed
    ELSE IF a.n # b.n THEN a.n < b.n
    ELSE IF a.name # b.name THEN StrLess(a.name, b.name)
    ELSE StrLess(a.value, b.value)

\* The line of the key k in a group that liberty_dict has rendered
LineOf(k) == liberty_dict("cell", "c", GroupOf(<<k>>), 0).lines[2]

\* The orders in which the given keys can appear in the input
Reordered == {ks \in KeyLists : Len(ks) = Len(given) /\ Range(ks) = Range(given)}

\* C8: liberty_dict renders a group of any keys; of two entries it emits, the
\* key of the first is before the key of the second in the stated order:
\* numeric suffix first, by the integer and then the name, then the keys
\* without one by name and value; and it emits the same lines for the keys in
\* any other input order
C8_KeyOrder ==
    pc = "returned" /\ given \in KeyLists =>
        /\ returned.ok
        /\ \A a, b \in DOMAIN given :
            (\E i, j \in DOMAIN returned.lines :
                /\ i < j
                /\ returned.lines[i] = LineOf(given[a])
                /\ returned.lines[j] = LineOf(given[b]))
                    => StatedBefore(StatedKey(given[a]), StatedKey(given[b]))
        /\ \A ks \in Reordered : liberty_dict("cell", "c", GroupOf(ks), 0) = returned

\* The numbers of an element of a number list
IsNumber(x) == x.kind \in {"int", "float"}

\* The rows of the given list: the list itself, or the rows of the table
RowsOf(v) == IF v[1].kind = "list" THEN [n \in DOMAIN v |-> v[n].elems] ELSE <<v>>

\* A row of numbers as C9 states it: all by the float rule when one is a
\* float, all as plain integers otherwise
StatedRow(r) ==
    IF \E n \in DOMAIN r : r[n].kind = "float"
    THEN Join([n \in DOMAIN r |-> liberty_float(r[n])])
    ELSE Join([n \in DOMAIN r |-> IntToStr(r[n].ival)])

\* C9: liberty_list fails when a row holds an element that is not a number;
\* otherwise the line of every row is the row joined by the rule for its own
\* numbers, the float rule when the row holds a float and plain integers when
\* it holds none
C9_JoinPerRow ==
    pc = "returned" /\ given \in NumberRows \cup NumberTables =>
        LET rows == RowsOf(given)
        IN  IF \E n \in DOMAIN rows : \E m \in DOMAIN rows[n] : ~IsNumber(rows[n][m])
            THEN ~returned.ok
            ELSE /\ returned.ok
                 /\ Len(returned.lines) = Len(rows)
                 /\ \A n \in DOMAIN rows :
                        Contains(returned.lines[n], "\"" \o StatedRow(rows[n]) \o "\"")

=============================================================================
